---- MODULE Spec2Model ----
(***************************************************************************)
(* A model of net.py: the subnet ping sweep (ping_subnet), the spreadsheet *)
(* sink (write_to_sheets_with_backup) and the Notion reconciliation        *)
(* (fetch_pages_map, upsert_notion, create_log_record) driven by the main  *)
(* loop over the subnet prefixes.                                          *)
(*                                                                         *)
(* Python strings are sequences of one-character strings, so that string   *)
(* building (f"{prefix}{i}"), splitting and int() are computed, not        *)
(* assumed.  A timestamp string "%Y-%m-%d %H:%M:%S" is the token sequence  *)
(* <<date, " ", time>>; "" is the empty sequence.                          *)
(***************************************************************************)
EXTENDS Integers, Sequences, FiniteSets, TLC

(***************************************************************************)
(* Bounds of the model.                                                    *)
(***************************************************************************)
\* hosts per subnet in the reconciliation model (range(1, 255) in the code)
NumHosts == 2
\* hosts per subnet in the ping model (range(1, 255) in the code)
PingHosts == 3
\* largest worker bound tried for the thread pool
MaxWorkers == 2
\* number of distinct clock readings (datetime.now, to the second)
MaxClock == 2
\* process runs (invocations of the script) in one behaviour
MaxRuns == 2
\* remote failures in one behaviour: a call that raises, is not carried out
\* or is carried out more than once, a schema fetch that returns {}
MaxFaults == 1
\* most rows the server returns in one page of the listing (100 in the code)
PageCap == 2

(***************************************************************************)
(* Program constants.                                                      *)
(***************************************************************************)
\* prefixes = ["192.168.10.", "192.168.80."]
prefixes ==
    << <<"1","9","2",".","1","6","8",".","1","0",".">>,
       <<"1","9","2",".","1","6","8",".","8","0",".">> >>

\* Retry(total=5, ...): re-sends of one request by the transport layer
RETRY_TOTAL == 5
\* payload = {"page_size": 100}
PAGE_SIZE == 100

NULL == "None"

(***************************************************************************)
(* Strings.                                                                *)
(***************************************************************************)
DigitChars == <<"0","1","2","3","4","5","6","7","8","9">>

\* str(i) for i >= 0
RECURSIVE IntToStr(_)
IntToStr(i) ==
    IF i < 10 THEN <<DigitChars[i + 1]>>
    ELSE IntToStr(i \div 10) \o <<DigitChars[(i % 10) + 1]>>

DigitVal(c) == CHOOSE d \in 0..9 : DigitChars[d + 1] = c

\* int(s) for a string of decimal digits
RECURSIVE StrToInt(_)
StrToInt(s) ==
    IF Len(s) = 0 THEN 0
    ELSE 10 * StrToInt(SubSeq(s, 1, Len(s) - 1)) + DigitVal(s[Len(s)])

\* s.split(".")[-1]: what follows the last "." (all of s when it has none)
RECURSIVE LastSegment(_)
LastSegment(s) ==
    IF Len(s) = 0 THEN <<>>
    ELSE IF s[Len(s)] = "." THEN <<>>
    ELSE LastSegment(SubSeq(s, 1, Len(s) - 1)) \o <<s[Len(s)]>>

\* f"{prefix}{i}"
FormatIp(prefix, i) == prefix \o IntToStr(i)

\* datetime.now(JST).strftime("%Y-%m-%d %H:%M:%S") at clock reading c
TimeOfDay ==
    <<"00:00:01", "00:00:02", "00:00:03", "00:00:04", "00:00:05", "00:00:06">>

Strftime(c) == <<"2025-01-01", " ", TimeOfDay[c]>>

\* jst_iso_from_str: 'YYYY-MM-DD HH:MM:SS' -> 'YYYY-MM-DDTHH:MM:SS+09:00'
jst_iso_from_str(ts_str) == <<ts_str[1], "T", ts_str[3], "+09:00">>

Clock == 1..MaxClock

(***************************************************************************)
(* ping_subnet                                                             *)
(***************************************************************************)
\* the sort key of ping_subnet: int(x[0].split(".")[-1])
SortKey(x) == StrToInt(LastSegment(x[1]))

\* list.sort(key=...): a stable sort, here by insertion
RECURSIVE InsertByKey(_, _)
InsertByKey(sorted, x) ==
    IF Len(sorted) = 0 THEN <<x>>
    ELSE IF SortKey(sorted[Len(sorted)]) <= SortKey(x) THEN Append(sorted, x)
    ELSE Append(InsertByKey(SubSeq(sorted, 1, Len(sorted) - 1), x), sorted[Len(sorted)])

RECURSIVE SortByKey(_)
SortByKey(s) ==
    IF Len(s) = 0 THEN <<>>
    ELSE InsertByKey(SortByKey(SubSeq(s, 1, Len(s) - 1)), s[Len(s)])

\* the list ping_subnet returns from the collected results
UnsortedReturn(collected) == collected

PingReturn(collected) == SortByKey(collected)

\* one collected entry: [ip, ts_now if ok else ""]
ResultEntry(ip, ok, ts_now) == <<ip, IF ok THEN ts_now ELSE <<>>>>

(***************************************************************************)
(* Notion: property values, the stored records and the listing.            *)
(*                                                                         *)
(* A database schema is a set of <<property name, type>> pairs.  A         *)
(* Timestamp property value is [type, val]: type "date" with val <<>> for  *)
(* {"date": None} and <<start>> for {"date": {"start": start}}; type       *)
(* "rich_text" with val <<>> for {"rich_text": []} and <<content>> for one *)
(* text item; type "absent" when the payload or the record has no          *)
(* Timestamp.  The store keeps for each record the properties last written *)
(* to it.  The two Status names of line 230 are written "connected" and     *)
(* "unreachable".                                                          *)
(***************************************************************************)
Schemas == { {<<"Timestamp", "date">>}, {<<"Timestamp", "rich_text">>}, {} }

\* the log database's schema as the server holds it
LogSchema == { <<"IP Address", "title">>, <<"Status", "select">>,
               <<"Timestamp", "date">>, <<"Network", "select">> }

\* has_prop(props, name, type_)
has_prop(props, name, type_) == <<name, type_>> \in props

TsAbsent == [type |-> "absent", val |-> <<>>]
TsDate(v) == [type |-> "date", val |-> v]
TsText(v) == [type |-> "rich_text", val |-> v]

\* the addresses of all subnets, in the order the listing serves their records
IpOrder ==
    [n \in 1..(Len(prefixes) * NumHosts) |->
        FormatIp(prefixes[((n - 1) \div NumHosts) + 1], ((n - 1) % NumHosts) + 1)]

AllIps == {IpOrder[n] : n \in 1..Len(IpOrder)}

\* the rows of the main database as the paginated query lists them
RECURSIVE ListingFrom(_, _)
ListingFrom(store, n) ==
    IF n > Len(IpOrder) THEN <<>>
    ELSE store[IpOrder[n]] \o ListingFrom(store, n + 1)

Listing(store) == ListingFrom(store, 1)

Min(a, b) == IF a < b THEN a ELSE b

\* rows in the next page of a query with page_size PAGE_SIZE when remaining
\* rows are left: a full page, or what is left
PageRows(remaining) == Min(Min(PAGE_SIZE, PageCap), remaining)

(***************************************************************************)
(* fetch_pages_map: one listed row                                         *)
(***************************************************************************)
NoPage == [present |-> FALSE, id |-> <<>>, ts |-> <<>>, status |-> ""]

\* lines 168-172: the row's Timestamp raises IndexError ([][0]) when the
\* rich_text branch meets an empty rich_text list
RowRaises(props, row) ==
    /\ ~has_prop(props, "Timestamp", "date")
    /\ row.Timestamp.type = "rich_text"
    /\ Len(row.Timestamp.val) = 0

\* lines 168-172: ts_existing
ts_existing(props, row) ==
    IF has_prop(props, "Timestamp", "date")
    THEN IF row.Timestamp.type = "date" /\ Len(row.Timestamp.val) > 0
         THEN row.Timestamp.val[1] ELSE <<>>
    ELSE IF row.Timestamp.type = "rich_text" /\ Len(row.Timestamp.val) > 0
         THEN row.Timestamp.val[1] ELSE <<>>

\* line 175: page_map[ip] = {"id": ..., "ts": ..., "status": ...}
PageEntry(props, row) ==
    [present |-> TRUE, id |-> row.id, ts |-> ts_existing(props, row), status |-> row.status]

\* lines 160-175 over the rows of one page, in order (a later row of the same
\* address replaces the earlier one)
RECURSIVE AddRows(_, _, _)
AddRows(pm, props, rows) ==
    IF Len(rows) = 0 THEN pm
    ELSE AddRows([pm EXCEPT ![Head(rows).ip] = PageEntry(props, Head(rows))],
                 props, Tail(rows))

RowsRaise(props, rows) == \E k \in 1..Len(rows) : RowRaises(props, rows[k])

(***************************************************************************)
(* upsert_notion: the decision and the payloads for one (ip, timestamp)    *)
(***************************************************************************)
\* line 230
status_name(timestamp) == IF timestamp # <<>> THEN "connected" ELSE "unreachable"

ts_is_date(props) == has_prop(props, "Timestamp", "date")
ts_is_text(props) == has_prop(props, "Timestamp", "rich_text")

CreateTimestampRaw(props, timestamp) ==
    IF timestamp # <<>>
    THEN IF ts_is_date(props) THEN TsDate(<<timestamp>>)
         ELSE IF ts_is_text(props) THEN TsText(<<timestamp>>)
         ELSE TsAbsent
    ELSE TsAbsent

\* lines 239-249: the Timestamp of a create payload
CreateTimestamp(props, timestamp) ==
    IF timestamp # <<>>
    THEN IF ts_is_date(props) THEN TsDate(<<jst_iso_from_str(timestamp)>>)
         ELSE IF ts_is_text(props) THEN TsText(<<timestamp>>)
         ELSE TsAbsent
    ELSE IF ts_is_date(props) THEN TsDate(<<>>)
         ELSE IF ts_is_text(props) THEN TsText(<<>>)
         ELSE TsAbsent

\* lines 261-263
want_ts_str(props, timestamp) ==
    IF timestamp # <<>>
    THEN IF ts_is_date(props) THEN jst_iso_from_str(timestamp) ELSE timestamp
    ELSE <<>>

\* lines 265-273
need_update(props, pm, timestamp) ==
    \/ IF ts_is_date(props)
       THEN pm.ts # want_ts_str(props, timestamp)
       ELSE pm.ts # timestamp
    \/ pm.status # status_name(timestamp)

UpdateTimestampKeep(props, timestamp) ==
    IF timestamp = <<>> THEN TsAbsent
    ELSE IF ts_is_date(props) THEN TsDate(<<jst_iso_from_str(timestamp)>>)
    ELSE IF ts_is_text(props) THEN TsText(<<timestamp>>)
    ELSE TsAbsent

\* lines 276-280: the Timestamp of an update payload
UpdateTimestamp(props, timestamp) ==
    IF ts_is_date(props)
    THEN IF timestamp # <<>> THEN TsDate(<<want_ts_str(props, timestamp)>>) ELSE TsDate(<<>>)
    ELSE IF ts_is_text(props)
    THEN IF timestamp # <<>> THEN TsText(<<timestamp>>) ELSE TsText(<<>>)
    ELSE TsAbsent

\* the branch upsert_notion takes for one address: lines 234, 275
Decision(props, pm, timestamp) ==
    IF ~pm.present THEN "create"
    ELSE IF need_update(props, pm, timestamp) THEN "update"
    ELSE "skip"

\* create_log_record, lines 185-195: whether a log page is posted at all
LogPosted(logs_db_id, log_props) ==
    /\ logs_db_id # NULL
    /\ has_prop(log_props, "IP Address", "title")

\* create_log_record, lines 202-206: the Timestamp of the log payload
LogTimestamp(log_props, timestamp) ==
    IF timestamp # <<>>
    THEN IF has_prop(log_props, "Timestamp", "date") THEN TsDate(<<jst_iso_from_str(timestamp)>>)
         ELSE IF has_prop(log_props, "Timestamp", "rich_text") THEN TsText(<<timestamp>>)
         ELSE TsAbsent
    ELSE TsAbsent

\* one create (S.post, line 252) or update (S.patch, line 283) call: what was
\* sent and how it ended.  applied is the number of times the server carried
\* the request out (a create that is re-sent after a lost response is carried
\* out again); raised is whether the call ended in a RequestException.
Call(kind, ip, id, status, ts, applied, raised) ==
    [kind |-> kind, ip |-> ip, id |-> id, status |-> status, Timestamp |-> ts,
     applied |-> applied, raised |-> raised]

\* the S.post of create_log_record (line 214); its outcome changes nothing the
\* program reads (a RequestException is swallowed, lines 215-216)
LogCall(log_props, ip, timestamp, status, network_prefix) ==
    [kind |-> "log", ip |-> ip,
     status |-> IF has_prop(log_props, "Status", "select") THEN status ELSE "",
     Timestamp |-> LogTimestamp(log_props, timestamp),
     Network |-> IF has_prop(log_props, "Network", "select") THEN network_prefix ELSE <<>>]

create_log_record_off(logs_db_id, log_props, ip, timestamp, status, network_prefix) == <<>>

\* create_log_record(ip, timestamp, status_name, network_prefix): the calls it makes
create_log_record(logs_db_id, log_props, ip, timestamp, status, network_prefix) ==
    IF LogPosted(logs_db_id, log_props)
    THEN <<LogCall(log_props, ip, timestamp, status, network_prefix)>>
    ELSE <<>>

\* the server carries out a create: a new record at the end of the address's rows
NewRecord(store, ip, status, ts) ==
    [id |-> <<ip, Len(store[ip]) + 1>>, ip |-> ip, status |-> status, Timestamp |-> ts]

RECURSIVE ApplyCreate(_, _, _, _, _)
ApplyCreate(store, ip, status, ts, n) ==
    IF n = 0 THEN store
    ELSE ApplyCreate([store EXCEPT ![ip] = Append(@, NewRecord(store, ip, status, ts))],
                     ip, status, ts, n - 1)

\* the server carries out a property patch of the record id: the properties in
\* the payload replace the stored ones, the others stay
PatchRecordStatusOnly(rec, status, ts) ==
    [rec EXCEPT !.status = status]

PatchRecord(rec, status, ts) ==
    [rec EXCEPT !.status = status,
                !.Timestamp = IF ts.type = "absent" THEN @ ELSE ts]

ApplyPatchAll(store, id, status, ts) ==
    [store EXCEPT ![id[1]] = [k \in 1..Len(@) |-> PatchRecord(@[k], status, ts)]]

ApplyPatch(store, id, status, ts) ==
    [store EXCEPT ![id[1]] =
        [k \in 1..Len(@) |-> IF @[k].id = id THEN PatchRecord(@[k], status, ts) ELSE @[k]]]

\* the lists ping_subnet can return for a prefix (NumHosts addresses) when
\* the clock reads c
PingReturns(prefix, c) ==
    { PingReturn([i \in 1..NumHosts |->
                    ResultEntry(FormatIp(prefix, i), i \in alive, Strftime(c))]) :
        alive \in SUBSET (1..NumHosts) }

(***************************************************************************)
(* Worksheets.  The cells of a worksheet are a function from <<row, col>>  *)
(* to the value of the cell; a cell outside its domain is empty.  A range  *)
(* update writes a list of rows from its top-left cell on.                 *)
(***************************************************************************)
NoCells == [x \in {} |-> <<>>]

Max(a, b) == IF a > b THEN a ELSE b

\* the cells a list of rows covers when written from <<row, col>> on
RangeOf(values, row, col) ==
    UNION { {<<row + r - 1, col + c - 1>> : c \in 1..Len(values[r])} : r \in 1..Len(values) }

\* worksheet.update(values, range_name=<the cell row, col>) and
\* batch_update([{"range": ..., "values": values}]) on the cells
UpdateCells(cells, values, row, col) ==
    [x \in DOMAIN cells \cup RangeOf(values, row, col) |->
        IF x \in RangeOf(values, row, col)
        THEN values[x[1] - row + 1][x[2] - col + 1]
        ELSE cells[x]]

\* the value of a cell ("" when nothing was written there)
CellValue(cells, row, col) ==
    IF <<row, col>> \in DOMAIN cells THEN cells[<<row, col>>] ELSE <<>>

\* rows and columns in use: the last row and column holding a non-empty cell
UsedRows(cells) ==
    LET rs == {x[1] : x \in {y \in DOMAIN cells : cells[y] # <<>>}} IN
    IF rs = {} THEN 0 ELSE CHOOSE m \in rs : \A r \in rs : r <= m

LastCol(cells) ==
    LET cs == {x[2] : x \in DOMAIN cells} IN
    IF cs = {} THEN 0 ELSE CHOOSE m \in cs : \A c \in cs : c <= m

\* worksheet.resize(cols=n), which add_cols calls: the columns beyond n go
ResizeCols(cells, n) == [x \in {y \in DOMAIN cells : y[2] <= n} |-> cells[x]]

\* line 75: the values written at A1 when the log sheet is created
HeaderValues(data) == << <<<<"IP Address">>>> \o [k \in 1..Len(data) |-> data[k][1]] >>

\* line 81: prev_col, column B of the rows below the header of sheet.get_all_values()
prev_col(cells) == [k \in 1..(UsedRows(cells) - 1) |-> CellValue(cells, k + 1, 2)]

\* lines 82 and 87: the backup column as a list of one-cell rows
BackupValues(cells, now) == [k \in 1..UsedRows(cells) |->
                                <<IF k = 1 THEN now ELSE prev_col(cells)[k - 1]>>]

\* lines 92-96: the table written to the main sheet
TableValues(data) == << << <<"IP Address">>, <<"Timestamp">> >> >> \o data

\* lines 100 and 104: the run column as a list of one-cell rows
RunValues(data, now) == [k \in 1..(Len(data) + 1) |->
                            <<IF k = 1 THEN now ELSE data[k - 1][2]>>]

VARIABLES
    \* ---- ping_subnet (SpecPing) ----
    pgPc,        \* "call" | "pool" | "returned"
    pgPrefix,    \* the prefix argument
    pgWorkers,   \* the workers argument
    pgTsNow,     \* ts_now
    pgQueue,     \* submitted futures not yet started, in submission order
    pgRunning,   \* ips whose ping_ip is running on a worker thread
    pgFinished,  \* finished futures not yet yielded by as_completed: <<ip, ok>>
    pgResults,   \* results
    pgReturn,    \* the returned list
    \* ---- the main loop and upsert_notion (Spec) ----
    pc,                \* "boot" | "ping" | "sheets" | "fetch" | "loop" | "return" | "done" | "crashed"
    runs,              \* process runs started so far
    prefixIdx,         \* position of the main loop in prefixes
    results,           \* results (main), data (upsert_notion)
    dbSchema,          \* the main database's Timestamp property, as the server holds it
    MAIN_DB_PROPS,     \* line 139
    NOTION_LOGS_DB_ID, \* line 25
    LOG_DB_PROPS,      \* line 140
    db,                \* the main database: address -> its records, oldest first
    page_map,          \* page_map of fetch_pages_map / upsert_notion
    cursor,            \* rows of the listing already served (start_cursor)
    idx,               \* position of the for loop of line 229 in data
    calls,             \* create, update and log calls of the current upsert_notion
    decisions,         \* the branch taken for each address of the current upsert_notion
    console,           \* lines printed during the current prefix
    fetched,           \* how fetch_pages_map ended: "none" | "pending" | "ok" | "RequestException" | "IndexError"
    faults,            \* remote failures so far
    \* ---- write_to_sheets_with_backup (SpecSheets) ----
    shPc,          \* "idle" | "main_ws" | "log_ws" | "backup" | "overwrite" | "run_col" | "returned" | "raised"
    shCalls,       \* calls of write_to_sheets_with_backup so far
    shData,        \* data
    sheetExists,   \* the spreadsheet has the worksheet sheet_name
    sheetCells,    \* its cells: <<row, col>> -> value
    logExists,     \* the spreadsheet has the worksheet log_sheet_name
    logCells,      \* its cells
    logGridCols,   \* its number of columns, as the spreadsheet holds it
    col_count,     \* log_sheet.col_count, as the Worksheet object holds it
    shTrace,       \* what the current call has done so far
    shFaults       \* API calls that raised so far

mainVars == <<pc, runs, prefixIdx, results, dbSchema, MAIN_DB_PROPS, NOTION_LOGS_DB_ID,
              LOG_DB_PROPS, db, page_map, cursor, idx, calls, decisions, console, fetched,
              faults>>

sheetVars == <<shPc, shCalls, shData, sheetExists, sheetCells, logExists, logCells,
               logGridCols, col_count, shTrace, shFaults>>

pingVars == <<pgPc, pgPrefix, pgWorkers, pgTsNow, pgQueue, pgRunning,
              pgFinished, pgResults, pgReturn>>

vars == <<pingVars, mainVars, sheetVars>>

(***************************************************************************)
(* The ping model: one call of ping_subnet.                                *)
(***************************************************************************)
PingIdle ==
    /\ pgPc = "idle"
    /\ pgPrefix = <<>>
    /\ pgWorkers = 0
    /\ pgTsNow = <<>>
    /\ pgQueue = <<>>
    /\ pgRunning = {}
    /\ pgFinished = {}
    /\ pgResults = <<>>
    /\ pgReturn = <<>>

MainIdle ==
    /\ pc = "idle"
    /\ runs = 0
    /\ prefixIdx = 1
    /\ results = <<>>
    /\ dbSchema = {}
    /\ MAIN_DB_PROPS = {}
    /\ NOTION_LOGS_DB_ID = NULL
    /\ LOG_DB_PROPS = {}
    /\ db = [ip \in AllIps |-> <<>>]
    /\ page_map = [ip \in AllIps |-> NoPage]
    /\ cursor = 0
    /\ idx = 1
    /\ calls = <<>>
    /\ decisions = <<>>
    /\ console = <<>>
    /\ fetched = "none"
    /\ faults = 0

SheetsIdle ==
    /\ shPc = "idle"
    /\ shCalls = 0
    /\ shData = <<>>
    /\ sheetExists = FALSE
    /\ sheetCells = NoCells
    /\ logExists = FALSE
    /\ logCells = NoCells
    /\ logGridCols = 0
    /\ col_count = 0
    /\ shTrace = <<>>
    /\ shFaults = 0

PingPrefixes == {prefixes[k] : k \in 1..Len(prefixes)}

PingInit ==
    /\ pgPc = "call"
    /\ pgPrefix \in PingPrefixes
    /\ pgWorkers \in 1..MaxWorkers
    /\ pgTsNow = <<>>
    /\ pgQueue = <<>>
    /\ pgRunning = {}
    /\ pgFinished = {}
    /\ pgResults = <<>>
    /\ pgReturn = <<>>
    /\ MainIdle
    /\ SheetsIdle

\* lines 118-122: build ips, read the clock, submit one future per ip
ping_subnet_submit ==
    /\ pgPc = "call"
    /\ \E c \in Clock : pgTsNow' = Strftime(c)
    /\ pgQueue' = [i \in 1..PingHosts |-> FormatIp(pgPrefix, i)]
    /\ pgPc' = "pool"
    /\ UNCHANGED <<pgPrefix, pgWorkers, pgRunning, pgFinished, pgResults, pgReturn>>
    /\ UNCHANGED <<mainVars, sheetVars>>

\* a free worker thread takes the next queued future
ping_worker_start ==
    /\ pgPc = "pool"
    /\ Len(pgQueue) > 0
    /\ Cardinality(pgRunning) < pgWorkers
    /\ pgRunning' = pgRunning \cup {Head(pgQueue)}
    /\ pgQueue' = Tail(pgQueue)
    /\ UNCHANGED <<pgPc, pgPrefix, pgWorkers, pgTsNow, pgFinished, pgResults, pgReturn>>
    /\ UNCHANGED <<mainVars, sheetVars>>

\* ping_ip returns on some worker: os.system(cmd) == 0 or not
ping_ip_finish ==
    /\ pgPc = "pool"
    /\ \E ip \in pgRunning, ok \in BOOLEAN :
        /\ pgRunning' = pgRunning \ {ip}
        /\ pgFinished' = pgFinished \cup {<<ip, ok>>}
    /\ UNCHANGED <<pgPc, pgPrefix, pgWorkers, pgTsNow, pgQueue, pgResults, pgReturn>>
    /\ UNCHANGED <<mainVars, sheetVars>>

\* lines 123-126: as_completed yields a finished future, the main thread appends
ping_collect ==
    /\ pgPc = "pool"
    /\ \E f \in pgFinished :
        /\ pgFinished' = pgFinished \ {f}
        /\ pgResults' = Append(pgResults, ResultEntry(f[1], f[2], pgTsNow))
    /\ UNCHANGED <<pgPc, pgPrefix, pgWorkers, pgTsNow, pgQueue, pgRunning, pgReturn>>
    /\ UNCHANGED <<mainVars, sheetVars>>

\* lines 127-128: every future was yielded; sort and return
ping_subnet_return ==
    /\ pgPc = "pool"
    /\ Len(pgResults) = PingHosts
    /\ pgReturn' = PingReturn(pgResults)
    /\ pgPc' = "returned"
    /\ UNCHANGED <<pgPrefix, pgWorkers, pgTsNow, pgQueue, pgRunning, pgFinished, pgResults>>
    /\ UNCHANGED <<mainVars, sheetVars>>

PingNext ==
    \/ ping_subnet_submit
    \/ ping_worker_start
    \/ ping_ip_finish
    \/ ping_collect
    \/ ping_subnet_return

SpecPing == PingInit /\ [][PingNext]_vars

(***************************************************************************)
(* The main loop (lines 297-313) with upsert_notion in steps: the pages of *)
(* fetch_pages_map, then one step per (ip, timestamp) of the data.         *)
(* ping_subnet is one step here (its threads are the subject of SpecPing); *)
(* write_to_sheets_with_backup is one step that returns or raises (its     *)
(* steps are the subject of SpecSheets).                                   *)
(***************************************************************************)
Init ==
    /\ pc = "boot"
    /\ runs = 0
    /\ prefixIdx = 1
    /\ results = <<>>
    /\ dbSchema \in Schemas
    /\ MAIN_DB_PROPS = {}
    /\ NOTION_LOGS_DB_ID \in {NULL, "logs"}
    /\ LOG_DB_PROPS = {}
    /\ db = [ip \in AllIps |-> <<>>]
    /\ page_map = [ip \in AllIps |-> NoPage]
    /\ cursor = 0
    /\ idx = 1
    /\ calls = <<>>
    /\ decisions = <<>>
    /\ console = <<>>
    /\ fetched = "none"
    /\ faults = 0
    /\ PingIdle
    /\ SheetsIdle

\* what get_db_properties returns for a database whose schema is schema:
\* the properties, or {} after a RequestException (lines 136-137)
get_db_properties(schema, failed) == IF failed THEN {} ELSE schema

\* lines 139-140: the schemas are read once, when the module is loaded
LoadProps ==
    \E mainFailed \in BOOLEAN, logFailed \in BOOLEAN :
        /\ logFailed => NOTION_LOGS_DB_ID # NULL
        /\ faults' = faults + (IF mainFailed THEN 1 ELSE 0) + (IF logFailed THEN 1 ELSE 0)
        /\ faults' <= MaxFaults
        /\ MAIN_DB_PROPS' = get_db_properties(dbSchema, mainFailed)
        /\ LOG_DB_PROPS' = IF NOTION_LOGS_DB_ID # NULL
                           THEN get_db_properties(LogSchema, logFailed) ELSE {}

\* the script is started: the module-level code of lines 20-47 and 139-140
process_start ==
    /\ pc \in {"boot", "done", "crashed"}
    /\ runs < MaxRuns
    /\ runs' = runs + 1
    /\ LoadProps
    /\ prefixIdx' = 1
    /\ results' = <<>>
    /\ page_map' = [ip \in AllIps |-> NoPage]
    /\ cursor' = 0
    /\ idx' = 1
    /\ calls' = <<>>
    /\ decisions' = <<>>
    /\ console' = <<>>
    /\ fetched' = "none"
    /\ pc' = "ping"
    /\ UNCHANGED <<dbSchema, NOTION_LOGS_DB_ID, db>>
    /\ UNCHANGED <<pingVars, sheetVars>>

\* lines 302-304; the sweeps of different runs read different seconds
main_ping ==
    /\ pc = "ping"
    /\ results' \in PingReturns(prefixes[prefixIdx], runs)
    /\ console' = <<[marker |-> "alive", about |-> prefixes[prefixIdx]]>>
    /\ pc' = "sheets"
    /\ UNCHANGED <<runs, prefixIdx, dbSchema, MAIN_DB_PROPS, NOTION_LOGS_DB_ID,
                   LOG_DB_PROPS, db, page_map, cursor, idx, calls, decisions, fetched, faults>>
    /\ UNCHANGED <<pingVars, sheetVars>>

\* lines 307-308: write_to_sheets_with_backup returns, or raises and ends the process
main_sheets ==
    /\ pc = "sheets"
    /\ \/ /\ pc' = "fetch"
          /\ fetched' = "pending"
          /\ UNCHANGED faults
       \/ /\ faults < MaxFaults
          /\ faults' = faults + 1
          /\ pc' = "crashed"
          /\ fetched' = "none"
    /\ UNCHANGED <<runs, prefixIdx, results, dbSchema, MAIN_DB_PROPS, NOTION_LOGS_DB_ID,
                   LOG_DB_PROPS, db, page_map, cursor, idx, calls, decisions, console>>
    /\ UNCHANGED <<pingVars, sheetVars>>

\* what upsert_notion does when fetch_pages_map raised a RequestException: lines 222-224
OnFetchError ==
    /\ fetched' = "RequestException"
    /\ console' = Append(console, [marker |-> "error", about |-> "Notion DB query"])
    /\ pc' = "return"

\* where an exception other than RequestException out of fetch_pages_map goes:
\* through upsert_notion (line 222 does not catch it) and the main loop
OnFetchCrash ==
    /\ fetched' = "IndexError"
    /\ pc' = "crashed"

has_more_never(served, total) == FALSE

\* lines 177-179: has_more of the response, true while rows of the listing
\* are left after the served ones
has_more(served, total) == served < total

\* one pass of the while loop of fetch_pages_map (lines 156-180): the query of
\* one page of at most page_size rows, and its rows
fetch_page ==
    /\ pc = "fetch"
    /\ \/ \* S.post or raise_for_status raises
          /\ faults < MaxFaults
          /\ faults' = faults + 1
          /\ OnFetchError
          /\ UNCHANGED <<page_map, cursor, idx>>
       \/ LET n == PageRows(Len(Listing(db)) - cursor)
              rows == SubSeq(Listing(db), cursor + 1, cursor + n) IN
            /\ IF RowsRaise(MAIN_DB_PROPS, rows)
               THEN /\ OnFetchCrash
                    /\ UNCHANGED <<page_map, cursor, idx>>
               ELSE /\ page_map' = AddRows(page_map, MAIN_DB_PROPS, rows)
                    /\ cursor' = cursor + n
                    /\ idx' = 1
                    /\ IF has_more(cursor + n, Len(Listing(db)))
                       THEN UNCHANGED <<fetched, pc>>
                       ELSE fetched' = "ok" /\ pc' = "loop"
            /\ UNCHANGED <<console, faults>>
    /\ UNCHANGED <<runs, prefixIdx, results, dbSchema, MAIN_DB_PROPS, NOTION_LOGS_DB_ID,
                   LOG_DB_PROPS, db, calls, decisions>>
    /\ UNCHANGED <<pingVars, sheetVars>>

\* the for loop of line 229 moves on, or upsert_notion returns
LoopAdvance ==
    IF idx < Len(results)
    THEN idx' = idx + 1 /\ pc' = "loop"
    ELSE idx' = idx /\ pc' = "return"

AfterWriteAbort(raised) ==
    IF raised THEN idx' = idx /\ pc' = "return" ELSE LoopAdvance

\* after the try of a create or update: the handler of RequestException is
\* pass (lines 253-254, 289-290), the log record follows and the loop goes on
AfterWrite(raised) == LoopAdvance

\* what the handlers of a raised create or update print: lines 253-254, 289-290 (pass)
OnWriteError(ip) == <<>>

Printed(ip, raised) == IF raised THEN OnWriteError(ip) ELSE <<>>

\* how often the server carries out one create call: not at all, once, or
\* twice when the transport layer sends the POST again after a response was
\* lost (allowed_methods holds POST, line 40; up to RETRY_TOTAL re-sends)
CreateApplied == {n \in {0, 1, 2} : n <= 1 + RETRY_TOTAL}

\* a create or update that is carried out exactly once and returns is no fault
FaultOf(applied, raised) == IF applied = 1 /\ ~raised THEN 0 ELSE 1

\* lines 234-258: no page for the address
upsert_create ==
    /\ pc = "loop"
    /\ LET ip == results[idx][1]
           timestamp == results[idx][2]
           st == status_name(timestamp)
           ts == CreateTimestamp(MAIN_DB_PROPS, timestamp)
       IN  /\ Decision(MAIN_DB_PROPS, page_map[ip], timestamp) = "create"
           /\ \E n \in CreateApplied, raised \in BOOLEAN :
                /\ faults' = faults + FaultOf(n, raised)
                /\ faults' <= MaxFaults
                /\ db' = ApplyCreate(db, ip, st, ts, n)
                /\ decisions' = Append(decisions, [ip |-> ip, branch |-> "create"])
                /\ calls' = calls \o <<Call("create", ip, <<>>, st, ts, n, raised)>>
                              \o create_log_record(NOTION_LOGS_DB_ID, LOG_DB_PROPS, ip,
                                                   timestamp, st, prefixes[prefixIdx])
                /\ console' = console \o Printed(ip, raised)
                /\ AfterWrite(raised)
    /\ UNCHANGED <<runs, prefixIdx, results, dbSchema, MAIN_DB_PROPS, NOTION_LOGS_DB_ID,
                   LOG_DB_PROPS, page_map, cursor, fetched>>
    /\ UNCHANGED <<pingVars, sheetVars>>

\* lines 260-294 with need_update
upsert_update ==
    /\ pc = "loop"
    /\ LET ip == results[idx][1]
           timestamp == results[idx][2]
           pm == page_map[ip]
           st == status_name(timestamp)
           ts == UpdateTimestamp(MAIN_DB_PROPS, timestamp)
       IN  /\ Decision(MAIN_DB_PROPS, pm, timestamp) = "update"
           /\ \E n \in 0..1, raised \in BOOLEAN :
                /\ faults' = faults + FaultOf(n, raised)
                /\ faults' <= MaxFaults
                /\ db' = IF n = 1 THEN ApplyPatch(db, pm.id, st, ts) ELSE db
                /\ decisions' = Append(decisions, [ip |-> ip, branch |-> "update"])
                /\ calls' = calls \o <<Call("update", ip, pm.id, st, ts, n, raised)>>
                              \o create_log_record(NOTION_LOGS_DB_ID, LOG_DB_PROPS, ip,
                                                   timestamp, st, prefixes[prefixIdx])
                /\ console' = console \o Printed(ip, raised)
                /\ AfterWrite(raised)
    /\ UNCHANGED <<runs, prefixIdx, results, dbSchema, MAIN_DB_PROPS, NOTION_LOGS_DB_ID,
                   LOG_DB_PROPS, page_map, cursor, fetched>>
    /\ UNCHANGED <<pingVars, sheetVars>>

\* lines 260-273 and 292-294 without need_update
upsert_skip ==
    /\ pc = "loop"
    /\ LET ip == results[idx][1]
           timestamp == results[idx][2]
           st == status_name(timestamp)
       IN  /\ Decision(MAIN_DB_PROPS, page_map[ip], timestamp) = "skip"
           /\ decisions' = Append(decisions, [ip |-> ip, branch |-> "skip"])
           /\ calls' = calls \o create_log_record(NOTION_LOGS_DB_ID, LOG_DB_PROPS, ip,
                                                  timestamp, st, prefixes[prefixIdx])
    /\ LoopAdvance
    /\ UNCHANGED <<runs, prefixIdx, results, dbSchema, MAIN_DB_PROPS, NOTION_LOGS_DB_ID,
                   LOG_DB_PROPS, db, page_map, cursor, console, fetched, faults>>
    /\ UNCHANGED <<pingVars, sheetVars>>

\* upsert_notion has returned: the next prefix (line 300), or line 313
main_next ==
    /\ pc = "return"
    /\ IF prefixIdx < Len(prefixes)
       THEN /\ prefixIdx' = prefixIdx + 1
            /\ pc' = "ping"
            /\ console' = <<>>
       ELSE /\ prefixIdx' = prefixIdx
            /\ pc' = "done"
            /\ console' = <<[marker |-> "finished", about |-> <<>>]>>
    /\ page_map' = [ip \in AllIps |-> NoPage]
    /\ cursor' = 0
    /\ idx' = 1
    /\ calls' = <<>>
    /\ decisions' = <<>>
    /\ fetched' = "none"
    /\ UNCHANGED <<runs, results, dbSchema, MAIN_DB_PROPS, NOTION_LOGS_DB_ID,
                   LOG_DB_PROPS, db, faults>>
    /\ UNCHANGED <<pingVars, sheetVars>>

Next ==
    \/ process_start
    \/ main_ping
    \/ main_sheets
    \/ fetch_page
    \/ upsert_create
    \/ upsert_update
    \/ upsert_skip
    \/ main_next

Spec == Init /\ [][Next]_vars

(***************************************************************************)
(* upsert_notion as a function: it is called again and again on one       *)
(* database with the results of sweeps of the first prefix, each call in a *)
(* process of its own (the schemas are read again).                        *)
(***************************************************************************)
upsert_notion_call ==
    /\ pc \in {"boot", "return", "crashed"}
    /\ runs < MaxRuns
    /\ runs' = runs + 1
    /\ LoadProps
    /\ prefixIdx' = 1
    /\ results' \in PingReturns(prefixes[1], runs')
    /\ page_map' = [ip \in AllIps |-> NoPage]
    /\ cursor' = 0
    /\ idx' = 1
    /\ calls' = <<>>
    /\ decisions' = <<>>
    /\ console' = <<>>
    /\ fetched' = "pending"
    /\ pc' = "fetch"
    /\ UNCHANGED <<dbSchema, NOTION_LOGS_DB_ID, db>>
    /\ UNCHANGED <<pingVars, sheetVars>>

UpsertNext ==
    \/ upsert_notion_call
    \/ fetch_page
    \/ upsert_create
    \/ upsert_update
    \/ upsert_skip

SpecUpsert == Init /\ [][UpsertNext]_vars

(***************************************************************************)
(* write_to_sheets_with_backup in steps, called again and again on one     *)
(* spreadsheet with the results of sweeps of the first prefix.  Every call *)
(* of the spreadsheet API either takes effect and returns or raises.       *)
(***************************************************************************)
SheetsInit ==
    /\ SheetsIdle
    /\ PingIdle
    /\ MainIdle

\* an API call raises: allowed while the budget of failures lasts
ApiRaises ==
    /\ shFaults < MaxFaults
    /\ shFaults' = shFaults + 1

\* an exception leaves write_to_sheets_with_backup
Raise(at) ==
    /\ shPc' = "raised"
    /\ shTrace' = Append(shTrace, <<"raised", at>>)

\* lines 60-61: gs_auth() and gc.open()
sheets_open ==
    /\ shPc \in {"idle", "returned", "raised"}
    /\ shCalls < MaxRuns
    /\ shCalls' = shCalls + 1
    /\ shData' \in PingReturns(prefixes[1], shCalls')
    /\ col_count' = 0
    /\ \/ /\ shPc' = "main_ws"
          /\ shTrace' = <<>>
          /\ UNCHANGED shFaults
       \/ /\ ApiRaises
          /\ shPc' = "raised"
          /\ shTrace' = << <<"raised", "open">> >>
    /\ UNCHANGED <<sheetExists, sheetCells, logExists, logCells, logGridCols>>
    /\ UNCHANGED <<pingVars, mainVars>>

\* lines 64-67: the main worksheet, added when it is not found
sheets_main_ws ==
    /\ shPc = "main_ws"
    /\ \/ /\ sheetExists' = TRUE
          /\ shPc' = "log_ws"
          /\ UNCHANGED <<shTrace, shFaults>>
       \/ /\ ApiRaises
          /\ Raise("main_ws")
          /\ UNCHANGED sheetExists
    /\ UNCHANGED <<shCalls, shData, sheetCells, logExists, logCells, logGridCols, col_count>>
    /\ UNCHANGED <<pingVars, mainVars>>

\* lines 70-75: the log worksheet; when it is not found it is added with two
\* columns and the addresses are written from A1 on
sheets_log_ws ==
    /\ shPc = "log_ws"
    /\ \/ \* ss.worksheet finds it
          /\ logExists
          /\ col_count' = logGridCols
          /\ shPc' = "backup"
          /\ shTrace' = Append(shTrace, <<"worksheets">>)
          /\ UNCHANGED <<logExists, logCells, logGridCols, shFaults>>
       \/ \* add_worksheet and the update of line 75
          /\ ~logExists
          /\ logExists' = TRUE
          /\ col_count' = 2
          /\ logCells' = UpdateCells(NoCells, HeaderValues(shData), 1, 1)
          /\ logGridCols' = Max(2, LastCol(logCells'))
          /\ shPc' = "backup"
          /\ shTrace' = Append(shTrace, <<"worksheets">>)
          /\ UNCHANGED shFaults
       \/ \* add_worksheet, and the update of line 75 raises
          /\ ~logExists
          /\ ApiRaises
          /\ logExists' = TRUE
          /\ logGridCols' = 2
          /\ Raise("log_header")
          /\ UNCHANGED <<logCells, col_count>>
       \/ \* ss.worksheet or add_worksheet raises
          /\ ApiRaises
          /\ Raise("log_ws")
          /\ UNCHANGED <<logExists, logCells, logGridCols, col_count>>
    /\ UNCHANGED <<shCalls, shData, sheetExists, sheetCells>>
    /\ UNCHANGED <<pingVars, mainVars>>

\* lines 84-85 and 101-102: col_count + 1 always exceeds log_sheet.col_count,
\* so one column is added; the Worksheet object then holds the new count
add_cols ==
    /\ logGridCols' = col_count + 1
    /\ col_count' = col_count + 1

BackupFailedRaises == Raise("backup")

\* line 88-89: except Exception: pass
BackupFailed ==
    /\ shPc' = "overwrite"
    /\ shTrace' = Append(shTrace, <<"backup_failed">>)

\* lines 78-89: the copy of column B of the main sheet to a new log column
sheets_backup ==
    /\ shPc = "backup"
    /\ \/ \* get_all_values raises
          /\ ApiRaises
          /\ BackupFailed
          /\ UNCHANGED <<logCells, logGridCols, col_count>>
       \/ \* fewer than two rows: nothing to copy
          /\ UsedRows(sheetCells) < 2
          /\ shPc' = "overwrite"
          /\ shTrace' = Append(shTrace, <<"backup_skipped">>)
          /\ UNCHANGED <<logCells, logGridCols, col_count, shFaults>>
       \/ \* add_cols raises
          /\ UsedRows(sheetCells) >= 2
          /\ ApiRaises
          /\ BackupFailed
          /\ UNCHANGED <<logCells, logGridCols, col_count>>
       \/ \* add_cols returns and the update raises
          /\ UsedRows(sheetCells) >= 2
          /\ ApiRaises
          /\ add_cols
          /\ logCells' = ResizeCols(logCells, col_count + 1)
          /\ BackupFailed
       \/ \* the column is written
          /\ UsedRows(sheetCells) >= 2
          /\ add_cols
          /\ logCells' = UpdateCells(ResizeCols(logCells, col_count + 1),
                                     BackupValues(sheetCells, Strftime(shCalls)),
                                     1, col_count + 1)
          /\ shPc' = "overwrite"
          /\ shTrace' = Append(shTrace, <<"backup_written", col_count + 1>>)
          /\ UNCHANGED shFaults
    /\ UNCHANGED <<shCalls, shData, sheetExists, sheetCells, logExists>>
    /\ UNCHANGED <<pingVars, mainVars>>

\* lines 92-96: the main sheet is overwritten from A1 on
sheets_overwrite ==
    /\ shPc = "overwrite"
    /\ \/ /\ sheetCells' = UpdateCells(sheetCells, TableValues(shData), 1, 1)
          /\ shPc' = "run_col"
          /\ shTrace' = Append(shTrace, <<"overwrite">>)
          /\ UNCHANGED shFaults
       \/ /\ ApiRaises
          /\ shPc' = "raised"
          /\ shTrace' = shTrace \o << <<"overwrite">>, <<"raised", "overwrite">> >>
          /\ UNCHANGED sheetCells
    /\ UNCHANGED <<shCalls, shData, sheetExists, logExists, logCells, logGridCols, col_count>>
    /\ UNCHANGED <<pingVars, mainVars>>

\* lines 99-104: the run column is written to a new log column
sheets_run_col ==
    /\ shPc = "run_col"
    /\ \/ \* add_cols raises
          /\ ApiRaises
          /\ Raise("run_col")
          /\ UNCHANGED <<logCells, logGridCols, col_count>>
       \/ \* add_cols returns and the update raises
          /\ ApiRaises
          /\ add_cols
          /\ logCells' = ResizeCols(logCells, col_count + 1)
          /\ Raise("run_col")
       \/ \* the column is written
          /\ add_cols
          /\ logCells' = UpdateCells(ResizeCols(logCells, col_count + 1),
                                     RunValues(shData, Strftime(shCalls)),
                                     1, col_count + 1)
          /\ shPc' = "returned"
          /\ shTrace' = Append(shTrace, <<"run_col", col_count + 1>>)
          /\ UNCHANGED shFaults
    /\ UNCHANGED <<shCalls, shData, sheetExists, sheetCells, logExists>>
    /\ UNCHANGED <<pingVars, mainVars>>

SheetsNext ==
    \/ sheets_open
    \/ sheets_main_ws
    \/ sheets_log_ws
    \/ sheets_backup
    \/ sheets_overwrite
    \/ sheets_run_col

SpecSheets == SheetsInit /\ [][SheetsNext]_vars

(***************************************************************************)
(* Properties.                                                             *)
(***************************************************************************)
\* the create and update calls of the current upsert_notion for an address
WriteCalls(ip, kind) ==
    {k \in 1..Len(calls) : calls[k].kind = kind /\ calls[k].ip = ip}

\* the (ip, timestamp) pairs the loop has dealt with so far
Processed == 1..Len(decisions)

\* upsert_notion has returned after a run without any transport failure
CleanReturn ==
    /\ pc = "return"
    /\ fetched = "ok"
    /\ \A k \in 1..Len(calls) :
        calls[k].kind \in {"create", "update"} => calls[k].applied = 1 /\ ~calls[k].raised

\* the page_map a further fetch_pages_map would build from the database now
NextPageMap == AddRows([ip \in AllIps |-> NoPage], MAIN_DB_PROPS, Listing(db))

\* C1: after upsert_notion(D) has returned without a transport failure, a
\* second run with the same D and the same schema issues no create and no
\* update: every address of D takes the skip branch against the database as
\* the first run left it (when its listing can be read at all).
C1_SecondRunIsNoOp ==
    (CleanReturn /\ ~RowsRaise(MAIN_DB_PROPS, Listing(db))) =>
        \A k \in 1..Len(results) :
            Decision(MAIN_DB_PROPS, NextPageMap[results[k][1]], results[k][2]) = "skip"

\* C2: the main database never holds two records with the same address.
C2_AddressUnique == \A ip \in AllIps : Len(db[ip]) <= 1

\* C3: ping_subnet returns exactly the addresses prefix+1 .. prefix+PingHosts,
\* each once, in ascending order of the trailing octet, whatever the worker
\* bound and the order in which the probes complete.
C3_SortedResults ==
    pgPc = "returned" =>
        /\ Len(pgReturn) = PingHosts
        /\ \A k \in 1..PingHosts : pgReturn[k][1] = FormatIp(pgPrefix, k)
        /\ \A k \in 1..(PingHosts - 1) : SortKey(pgReturn[k]) < SortKey(pgReturn[k + 1])

\* ping_subnet has returned after probes that completed out of address order
C3_Witness ==
    /\ pgPc = "returned"
    /\ pgWorkers >= 2
    /\ pgResults # pgReturn
    /\ \E k \in 1..PingHosts : pgReturn[k][2] # <<>>

\* a create payload carries the probed timestamp: as it is, or as the JST
\* ISO-8601 string of it; an empty timestamp as no value
CarriesTimestamp(prop, timestamp) ==
    IF timestamp = <<>> THEN prop.val = <<>>
    ELSE prop.val \in {<<timestamp>>, <<jst_iso_from_str(timestamp)>>}

\* the probed timestamp of the k-th address
ProbedTs(k) == results[k][2]

\* C4 as stated: for every probed address absent from the baseline map there
\* is exactly one create call and no update call, and the create carries the
\* probed timestamp and the status derived from it.
C4_CreateCarriesTimestamp ==
    \A k \in Processed :
        LET ip == results[k][1] IN
        ~page_map[ip].present =>
            /\ Cardinality(WriteCalls(ip, "create")) = 1
            /\ WriteCalls(ip, "update") = {}
            /\ \A c \in WriteCalls(ip, "create") :
                /\ calls[c].status = (IF ProbedTs(k) # <<>> THEN "connected" ELSE "unreachable")
                /\ CarriesTimestamp(calls[c].Timestamp, ProbedTs(k))

\* C4 amended: for every probed address absent from the baseline map there is
\* exactly one create call and no update call; the create carries the status
\* derived from the probed timestamp, and the timestamp in the form of the
\* Timestamp property read at start-up: the JST ISO-8601 string (or None) for
\* a date, the string itself (or no text) for a rich_text, and no Timestamp
\* at all when the schema has neither.
C4_CreatePerSchema ==
    \A k \in Processed :
        LET ip == results[k][1] IN
        ~page_map[ip].present =>
            /\ Cardinality(WriteCalls(ip, "create")) = 1
            /\ WriteCalls(ip, "update") = {}
            /\ \A c \in WriteCalls(ip, "create") :
                /\ calls[c].status = (IF ProbedTs(k) # <<>> THEN "connected" ELSE "unreachable")
                /\ <<"Timestamp", "date">> \in MAIN_DB_PROPS =>
                    /\ calls[c].Timestamp.type = "date"
                    /\ calls[c].Timestamp.val =
                        (IF ProbedTs(k) = <<>> THEN <<>>
                         ELSE << <<ProbedTs(k)[1], "T", ProbedTs(k)[3], "+09:00">> >>)
                /\ <<"Timestamp", "rich_text">> \in MAIN_DB_PROPS =>
                    /\ calls[c].Timestamp.type = "rich_text"
                    /\ calls[c].Timestamp.val =
                        (IF ProbedTs(k) = <<>> THEN <<>> ELSE <<ProbedTs(k)>>)
                /\ MAIN_DB_PROPS = {} => calls[c].Timestamp.type = "absent"

\* a create of a reachable address was issued against a date Timestamp
C4_Witness ==
    \E k \in Processed :
        /\ ~page_map[results[k][1]].present
        /\ ProbedTs(k) # <<>>
        /\ \E c \in WriteCalls(results[k][1], "create") :
            calls[c].Timestamp.type = "date" /\ Len(calls[c].Timestamp.val) = 1

\* the stored Timestamp of the record with this id
StoredTimestamp(id) ==
    LET rows == db[id[1]] IN
    (CHOOSE r \in {rows[j] : j \in 1..Len(rows)} : r.id = id).Timestamp

\* the addresses whose baseline record is "connected" while the probe's
\* timestamp is empty
Flipped(k) ==
    /\ page_map[results[k][1]].present
    /\ page_map[results[k][1]].status = "connected"
    /\ ProbedTs(k) = <<>>

\* C5 as stated: for every probed address whose baseline record is
\* "connected" while the probe's timestamp is empty there is exactly one
\* update call, addressed to that record's id, that sets the status to
\* "unreachable" and clears the stored timestamp (it sends an empty
\* Timestamp, or the record holds no timestamp to clear).
C5_FlipClearsTimestamp ==
    \A k \in Processed :
        LET ip == results[k][1] IN
        Flipped(k) =>
            /\ Cardinality(WriteCalls(ip, "update")) = 1
            /\ \A c \in WriteCalls(ip, "update") :
                /\ calls[c].id = page_map[ip].id
                /\ calls[c].status = "unreachable"
                /\ \/ calls[c].Timestamp.type # "absent" /\ calls[c].Timestamp.val = <<>>
                   \/ StoredTimestamp(calls[c].id).val = <<>>

\* C5 amended: for every such address there is exactly one update call,
\* addressed to that record's id, that sets the status to "unreachable"; it
\* clears the timestamp ({"date": None} or {"rich_text": []}) when the
\* Timestamp property read at start-up is a date or a rich_text, and sends
\* the status alone, leaving the stored timestamp, when the schema read at
\* start-up has neither.
C5_FlipPerSchema ==
    \A k \in Processed :
        LET ip == results[k][1] IN
        Flipped(k) =>
            /\ Cardinality(WriteCalls(ip, "update")) = 1
            /\ WriteCalls(ip, "create") = {}
            /\ \A c \in WriteCalls(ip, "update") :
                /\ calls[c].id = page_map[ip].id
                /\ calls[c].status = "unreachable"
                /\ calls[c].Timestamp =
                    (IF <<"Timestamp", "date">> \in MAIN_DB_PROPS
                        THEN [type |-> "date", val |-> <<>>]
                     ELSE IF <<"Timestamp", "rich_text">> \in MAIN_DB_PROPS
                        THEN [type |-> "rich_text", val |-> <<>>]
                     ELSE [type |-> "absent", val |-> <<>>])

\* an update of a record that was "connected" with a stored date cleared it
C5_Witness ==
    \E k \in Processed :
        /\ Flipped(k)
        /\ page_map[results[k][1]].ts # <<>>
        /\ \E c \in WriteCalls(results[k][1], "update") :
            /\ calls[c].applied = 1
            /\ calls[c].Timestamp = [type |-> "date", val |-> <<>>]
            /\ StoredTimestamp(calls[c].id).val = <<>>

\* C6: in a run whose listing fetch succeeded the loop is never left early:
\* the run does not end in an exception, and when upsert_notion returns every
\* probed address has had its branch taken, in the order of the data, with
\* the create or update call of its branch issued, whichever calls raised.
C6_LoopNotAborted ==
    fetched = "ok" =>
        /\ pc \in {"loop", "return"}
        /\ Len(decisions) = (IF pc = "return" THEN Len(results) ELSE idx - 1)
        /\ \A k \in Processed :
            /\ decisions[k].ip = results[k][1]
            /\ decisions[k].branch # "skip" =>
                WriteCalls(results[k][1], decisions[k].branch) # {}

\* upsert_notion returned after the call for the first address raised and
\* the second address was still dealt with
C6_Witness ==
    /\ pc = "return"
    /\ fetched = "ok"
    /\ Len(decisions) = Len(results)
    /\ Len(results) >= 2
    /\ \E c \in 1..Len(calls) :
        /\ calls[c].kind \in {"create", "update"}
        /\ calls[c].ip = results[1][1]
        /\ calls[c].raised

\* C7: when fetch_pages_map fails, upsert_notion issues no create, no update
\* and no log call and returns to the main loop, which goes on with the next
\* prefix.
C7_FetchFailureContained ==
    fetched \in {"RequestException", "IndexError"} =>
        /\ calls = <<>>
        /\ pc = "return"

\* C10: every create or update call that raised has a console line with an
\* error marker and the address.
C10_FailureReported ==
    \A c \in 1..Len(calls) :
        (calls[c].kind \in {"create", "update"} /\ calls[c].raised) =>
            \E m \in 1..Len(console) :
                console[m].marker = "error" /\ console[m].about = calls[c].ip


\* the current call of write_to_sheets_with_backup has done e
HasEvent(e) == \E i \in 1..Len(shTrace) : shTrace[i][1] = e

BackupOutcomes == {"backup_written", "backup_failed", "backup_skipped"}

\* C8: once both worksheets are obtained, the overwrite of the main sheet is
\* always issued, and only after the backup of the previous column B has
\* been written, has failed, or had no previous column to copy; a failure
\* of the backup never leaves the function.
C8_OverwriteAfterBackup ==
    /\ \A i \in 1..Len(shTrace) :
          shTrace[i][1] = "overwrite" =>
              \E j \in 1..(i - 1) : shTrace[j][1] \in BackupOutcomes
    /\ (HasEvent("worksheets") /\ shPc \in {"run_col", "returned", "raised"}) =>
          HasEvent("overwrite")
    /\ \A i \in 1..Len(shTrace) :
          shTrace[i][1] = "raised" => shTrace[i][2] # "backup"

\* a call whose backup failed and whose overwrite put the table in the main sheet
C8_Witness ==
    /\ shPc \in {"run_col", "returned"}
    /\ \E i \in 1..Len(shTrace) : \E j \in (i + 1)..Len(shTrace) :
          shTrace[i][1] = "backup_failed" /\ shTrace[j][1] = "overwrite"
    /\ \A k \in 1..Len(shData) :
          /\ CellValue(sheetCells, k + 1, 1) = shData[k][1]
          /\ CellValue(sheetCells, k + 1, 2) = shData[k][2]

\* C9: a run column written to the log sheet holds the run timestamp in its
\* first row and, below it, the outcome of each address in the row where the
\* log sheet holds that address.
C9_ColumnsAlignedWithAddresses ==
    \A i \in 1..Len(shTrace) :
        (shPc = "returned" /\ shTrace[i][1] = "run_col") =>
            /\ CellValue(logCells, 1, shTrace[i][2]) = Strftime(shCalls)
            /\ \A k \in 1..Len(shData) :
                  /\ CellValue(logCells, k + 1, shTrace[i][2]) = shData[k][2]
                  /\ \E a \in 1..LastCol(logCells) :
                        CellValue(logCells, k + 1, a) = shData[k][1]

\* C11: a failure of write_to_sheets_with_backup for a prefix neither keeps
\* upsert_notion of that prefix from being entered nor ends the main loop:
\* the process never stops with the upsert_notion of the current prefix not
\* entered.
C11_SinksIndependent == pc = "crashed" => fetched # "none"

\* the records the main database holds for an address
RecordsOf(ip) == {db[ip][j] : j \in 1..Len(db[ip])}

\* C12 as stated: after a run whose listing fetch and every create and update
\* call succeeded, every probed address has a record whose status is the one
\* derived from the probe and whose timestamp is the probed one (none for an
\* unreachable address).
C12_Converged ==
    CleanReturn =>
        \A k \in 1..Len(results) :
            \E r \in RecordsOf(results[k][1]) :
                /\ r.status = (IF ProbedTs(k) # <<>> THEN "connected" ELSE "unreachable")
                /\ CarriesTimestamp(r.Timestamp, ProbedTs(k))

\* C12, amended: after such a run every probed address has a record whose
\* status is the one derived from the probe; when the Timestamp property read
\* at start-up is a date or rich_text, that record's timestamp is the probed
\* one (the JST ISO string as a date, the string itself as rich_text) or
\* empty for an unreachable address.
C12_ConvergedPerSchema ==
    CleanReturn =>
        \A k \in 1..Len(results) :
            \E r \in RecordsOf(results[k][1]) :
                /\ r.status = (IF ProbedTs(k) # <<>> THEN "connected" ELSE "unreachable")
                /\ (ts_is_date(MAIN_DB_PROPS) \/ ts_is_text(MAIN_DB_PROPS)) =>
                      IF ProbedTs(k) = <<>> THEN r.Timestamp.val = <<>>
                      ELSE IF ts_is_date(MAIN_DB_PROPS)
                           THEN r.Timestamp = TsDate(<<jst_iso_from_str(ProbedTs(k))>>)
                           ELSE r.Timestamp = TsText(<<ProbedTs(k)>>)

\* a run without failure that updated the record of an address probed
\* connected, under a schema with a Timestamp, and left the probed timestamp
\* in it
C12_Witness ==
    /\ CleanReturn
    /\ ts_is_date(MAIN_DB_PROPS) \/ ts_is_text(MAIN_DB_PROPS)
    /\ \E c \in 1..Len(calls) :
          /\ calls[c].kind = "update"
          /\ calls[c].status = "connected"
          /\ StoredTimestamp(calls[c].id).val # <<>>
          /\ CarriesTimestamp(StoredTimestamp(calls[c].id), results[Len(results)][2])

\* fetch_pages_map has just returned its map to upsert_notion
FetchReturned == pc = "loop" /\ fetched = "ok" /\ decisions = <<>>

LogCalls(ip) == WriteCalls(ip, "log")

\* the k-th address dealt with has exactly one log call, and that call comes
\* right after the create or update call of the address when it has one
LoggedOnce(k) ==
    LET ip == decisions[k].ip IN
    /\ Cardinality(LogCalls(ip)) = 1
    /\ \A c \in WriteCalls(ip, "create") \cup WriteCalls(ip, "update") :
          c + 1 \in LogCalls(ip)

\* C14 as stated: in a run whose listing fetch succeeded, with a log database
\* configured, every address dealt with (created, updated or left unchanged)
\* has exactly one log call, issued after its create or update call, whether
\* or not that call raised.
C14_LogEveryTime ==
    (fetched = "ok" /\ NOTION_LOGS_DB_ID # NULL) =>
        \A k \in Processed : LoggedOnce(k)

\* C14, amended: the same when the log database is configured and the schema
\* read from it at start-up has the title property "IP Address"; when that
\* schema has no such property (the read failed, or the database has none), no
\* log call is issued at all.
C14_LogPerSchema ==
    fetched = "ok" =>
        IF LogPosted(NOTION_LOGS_DB_ID, LOG_DB_PROPS)
        THEN \A k \in Processed : LoggedOnce(k)
        ELSE \A c \in 1..Len(calls) : calls[c].kind # "log"

\* upsert_notion returned having left one address unchanged and having made
\* a create or update call that raised for another, each with its log call
C14_Witness ==
    /\ pc = "return"
    /\ fetched = "ok"
    /\ LogPosted(NOTION_LOGS_DB_ID, LOG_DB_PROPS)
    /\ \E k \in Processed : decisions[k].branch = "skip" /\ LoggedOnce(k)
    /\ \E c \in 1..Len(calls) :
          /\ calls[c].kind \in {"create", "update"}
          /\ calls[c].raised
          /\ c + 1 \in LogCalls(calls[c].ip)

\* the step is the update branch of upsert_notion aimed at the record rec
UpdateAimedAt(rec) ==
    /\ pc = "loop"
    /\ rec.ip = results[idx][1]
    /\ Decision(MAIN_DB_PROPS, page_map[rec.ip], results[idx][2]) = "update"
    /\ page_map[rec.ip].id = rec.id

\* C15: no step removes a record of the main database or changes a record's
\* id or address; a record's status or timestamp changes only in the update
\* step aimed at that record's id, so a create changes no existing record and
\* an update leaves every other record as it was.
C15_WriteFrame ==
    [][\A ip \in AllIps :
          /\ Len(db'[ip]) >= Len(db[ip])
          /\ \A j \in 1..Len(db[ip]) :
                /\ db'[ip][j].id = db[ip][j].id
                /\ db'[ip][j].ip = db[ip][j].ip
                /\ db'[ip][j] # db[ip][j] => UpdateAimedAt(db[ip][j])]_vars

\* an update was carried out on one of two records of the same address and
\* the other one kept what it held
C15_Witness ==
    \E c \in 1..Len(calls) :
        /\ calls[c].kind = "update"
        /\ calls[c].applied = 1
        /\ Len(db[calls[c].ip]) = 2
        /\ db[calls[c].ip][1].status # db[calls[c].ip][2].status

\* C16: the log sheet only grows rightward.  No step removes a cell of the
\* log sheet or changes what it holds; every cell a step writes lies in a
\* column to the right of every cell the log sheet held before; and the
\* backup column and the run column of one call are different columns.
C16_LogGrowsRightward ==
    /\ [][\A x \in DOMAIN logCells :
              x \in DOMAIN logCells' /\ logCells'[x] = logCells[x]]_vars
    /\ [][\A x \in DOMAIN logCells' :
              (x \notin DOMAIN logCells \/ logCells'[x] # logCells[x]) =>
                  x[2] > LastCol(logCells)]_vars
    /\ [](\A i \in 1..Len(shTrace) : \A j \in 1..Len(shTrace) :
              (shTrace[i][1] = "backup_written" /\ shTrace[j][1] = "run_col") =>
                  shTrace[i][2] # shTrace[j][2])

====
